---- MODULE Spec2Model ----
(***************************************************************************)
(* Model of the multi-source news aggregation pipeline of SF-Narrative:    *)
(* lib/sources/index.ts (scoring, URL normalisation, dedup, the two        *)
(* orchestrator operations), lib/sources/reddit-client.ts (discussion      *)
(* listing adapter and RSS feed adapter) and                               *)
(* lib/sources/thenewsapi-client.ts (backup adapter and its daily usage    *)
(* counter).                                                               *)
(***************************************************************************)
EXTENDS Integers, Sequences, FiniteSets, TLC

VARIABLES
  pc,            \* orchestrator: "idle", "fetch", "rss", "reddit", "hn", "backup", "done", "threw"
  opts,          \* [op, category, limit, fromDate, skipBackup] of the running operation
  feed,          \* feed adapter, per feed: [st, ok, out]; st: "idle", "try1", "wait", "try2", "done"
  rssSt,         \* fetchRSSArticles: "idle", "running", "done"
  rssAll,        \* its result, by category
  redditSt,      \* fetchRedditArticles: "idle", "fetch", "delay", "done"
  redditIdx,     \* index of the subreddit being fetched
  redditAll,     \* its results so far, by category
  hnSt,          \* fetchHackerNewsArticles: "idle", "running", "done"
  hnArticles,    \* its result
  feedOrder,     \* the feeds whose parseFeed promise settled, in settling order
  settled,       \* the adapters whose promise settled, in settling order (both orders
                 \* are kept until the orchestrator's first step after combining)
  combined,      \* raw candidates, by category (allArticles for one category)
  primary,       \* the raw candidates of the primary sources, before any backup
  needsBackup,   \* categories whose backup call is still to be made
  backupCat,     \* category of the backup request in flight, or "none"
  backupLog,     \* the fetchTheNewsAPIArticles calls made: [cat, requested, returned]
  apiKey,        \* process.env.THENEWSAPI_KEY is set
  dailyUsage,    \* thenewsapi-client: requests counted today
  usageResetDate,\* thenewsapi-client: day of the last reset
  usageAtStart,  \* dailyUsage when the operation started
  processed,     \* per-category lists after processCategory
  result,        \* the lists returned, by category
  now,           \* clock, in hours
  nurls,    \* URL normalisation harness: the two input URL strings
  nkeys,    \* normalizeUrl of each input
  nkeys2,   \* normalizeUrl applied to each key again
  ndedup,   \* deduplicateByUrl of the two articles carrying the inputs
  nphase,   \* "input", then the kind of edit made to the second URL, then "applied"
  dlist,    \* deduplication harness: the articles passed to deduplicateByUrl
  dout,     \* what deduplicateByUrl returned
  dphase,   \* "none", "input", "applied"
  call,     \* backup client harness, per caller: [st, cat, out] of its fetchTheNewsAPIArticles call
  available,\* what the last isTheNewsAPIAvailable call reported: "none", "true", "false"
  remaining,\* what the last getRemainingRequests call returned: << >> or <<n>>
  sarts,    \* scoring harness: two articles that differ in publishedDate only
  sscores,  \* scoreRelevance of each
  cache,    \* content-loader: [news, activities], the stored value: << >> (null) or <<n>>,
            \* the data the n-th request of that kind returned
  cachePromise, \* content-loader: [news, activities], TRUE while a load promise is stored
  requests, \* requests issued so far to /api/news-cache and /api/activities-cache
  loader    \* per caller of loadNewsCache/loadActivitiesCache: [st, kind, got];
            \* st: "idle", "waiting", "done"

dedupVars == <<dlist, dout, dphase>>

normVars == <<nurls, nkeys, nkeys2, ndedup, nphase, dedupVars>>

clientVars == <<call, available, remaining>>

scoreVars == <<sarts, sscores>>

loaderVars == <<cache, cachePromise, requests, loader>>

adapterVars == <<feed, rssSt, rssAll, redditSt, redditIdx, redditAll, hnSt, hnArticles>>

orderVars == <<feedOrder, settled>>

budgetVars == <<apiKey, dailyUsage, usageResetDate>>

orchVars == <<pc, opts, combined, primary, needsBackup, backupCat, backupLog,
              usageAtStart, processed, result, now>>

mainVars == <<orchVars, adapterVars, orderVars, budgetVars>>

vars == <<mainVars, normVars, clientVars, scoreVars, loaderVars>>

(***************************************************************************)
(* Program constants                                                       *)
(***************************************************************************)
SafetyLimit     == 95    \* no backup request once dailyUsage >= 95
MinArticles     == 3     \* fetchAllCategories: backup below 3 raw articles
MinArticlesOne  == 5     \* fetchFromAllSources: backup below 5 raw articles
DefaultLimit    == 10    \* options.limit default
BackupLimit     == 10    \* limit passed to fetchTheNewsAPIArticles
FeedItemLimit   == 20    \* parseFeed takes the top 20 items

(***************************************************************************)
(* Bounds                                                                  *)
(***************************************************************************)
MaxSlashes == 2          \* trailing slashes an input URL may carry
MaxParams  == 1          \* query parameters of a base input URL
MaxCallers == 2          \* concurrent callers of the backup client
MaxDays    == 1          \* midnights that pass in a run of the backup client
MaxList    == 3          \* articles in a list passed to deduplicateByUrl on its own
MaxLoaders == 3          \* callers of the browser cache loaders
MaxRequests == 2         \* requests issued to each cache endpoint

(***************************************************************************)
(* URL strings.  A string is a record of its parts:                        *)
(*   scheme  "https" or "" (no scheme: new URL() throws)                   *)
(*   www     the host starts with "www."                                   *)
(*   host    the rest of the host                                          *)
(*   path    the path without its trailing slashes                         *)
(*   slashes number of trailing slashes                                    *)
(*   query   sequence of [n, v] parameters, in the order written           *)
(*   frag    the string ends with a #fragment                              *)
(* NoUrl is the JavaScript value undefined (a record without a url).       *)
(***************************************************************************)
Param(n, v) == [n |-> n, v |-> v]

NoUrl == [scheme |-> "undefined", www |-> FALSE, host |-> "", path |-> "",
          slashes |-> 0, query |-> << >>, frag |-> FALSE]

trackingParams ==
  <<"utm_source", "utm_medium", "utm_campaign", "utm_term", "utm_content",
    "ref", "source", "fbclid", "gclid", "mc_cid", "mc_eid">>

\* String.prototype.toLowerCase on the text parts used by the model
toLowerCase(s) == CASE s = "/A" -> "/a"
                    [] s = "Q"  -> "q"
                    [] OTHER    -> s

\* code-unit order of the parameter names (URLSearchParams.sort compares names)
NameOrder ==
  <<"fbclid", "gclid", "id", "mc_cid", "mc_eid", "page", "ref", "source",
    "utm_campaign", "utm_content", "utm_medium", "utm_source", "utm_term">>

NameRank(n) == CHOOSE i \in DOMAIN NameOrder : NameOrder[i] = n

\* URLSearchParams.delete(name): removes every parameter with that name
searchParamsDelete(q, name) == SelectSeq(q, LAMBDA p : p.n # name)

\* mutant: only the utm_ parameters are removed
deleteTracking_UtmOnly(q, i) ==
  SelectSeq(q, LAMBDA p : p.n \notin {"utm_source", "utm_medium", "utm_campaign",
                                       "utm_term", "utm_content"})

RECURSIVE deleteTracking(_, _)
deleteTracking(q, i) ==
  IF i > Len(trackingParams) THEN q
  ELSE deleteTracking(searchParamsDelete(q, trackingParams[i]), i + 1)

\* insert p after every parameter whose name is not greater (stable)
RECURSIVE insertSorted(_, _)
insertSorted(sorted, p) ==
  IF sorted = << >> THEN <<p>>
  ELSE IF NameRank(Head(sorted).n) <= NameRank(p.n)
       THEN <<Head(sorted)>> \o insertSorted(Tail(sorted), p)
       ELSE <<p>> \o sorted

\* URLSearchParams.sort(): stable sort by name
RECURSIVE searchParamsSort(_)
searchParamsSort(q) ==
  IF q = << >> THEN << >>
  ELSE insertSorted(searchParamsSort(SubSeq(q, 1, Len(q) - 1)), q[Len(q)])

\* new URL(url) succeeds
urlParses(u) == u.scheme = "https"

\* parsed.pathname: an empty path is "/"
pathnameSlashes(u) == IF u.path = "" /\ u.slashes = 0 THEN 1 ELSE u.slashes

\* catch branch: url.toLowerCase().replace(/#.*$/, '')
normalizeFallback(u) ==
  [u EXCEPT !.host = toLowerCase(u.host),
            !.path = toLowerCase(u.path),
            !.query = [i \in DOMAIN u.query |->
                         [n |-> toLowerCase(u.query[i].n),
                          v |-> toLowerCase(u.query[i].v)]],
            !.frag = FALSE]

\* mutant: hostname + pathname only, every query parameter is dropped
normalizeParsed_NoQuery(u) ==
  [scheme  |-> "",
   www     |-> FALSE,
   host    |-> toLowerCase(u.host),
   path    |-> u.path,
   slashes |-> IF pathnameSlashes(u) > 0 THEN pathnameSlashes(u) - 1 ELSE 0,
   query   |-> << >>,
   frag    |-> FALSE]

\* mutant: the "www." prefix of the hostname is kept
normalizeParsed_KeepWww(u) ==
  [scheme  |-> "",
   www     |-> u.www,
   host    |-> toLowerCase(u.host),
   path    |-> u.path,
   slashes |-> IF pathnameSlashes(u) > 0 THEN pathnameSlashes(u) - 1 ELSE 0,
   query   |-> searchParamsSort(deleteTracking(u.query, 1)),
   frag    |-> FALSE]

\* try branch: hostname without www + pathname without one trailing slash
\*             + sorted query string without the tracking parameters
normalizeParsed(u) ==
  [scheme  |-> "",
   www     |-> FALSE,
   host    |-> toLowerCase(u.host),
   path    |-> u.path,
   slashes |-> IF pathnameSlashes(u) > 0 THEN pathnameSlashes(u) - 1 ELSE 0,
   query   |-> searchParamsSort(deleteTracking(u.query, 1)),
   frag    |-> FALSE]

\* url.toLowerCase() of undefined throws a TypeError out of the catch branch
normalizeThrows(u) == u = NoUrl

normalizeUrl(u) == IF urlParses(u) THEN normalizeParsed(u) ELSE normalizeFallback(u)

normalizeUrlForDedup(u) ==
  IF urlParses(u) THEN normalizeParsed(u) ELSE normalizeFallback(u)

\* mutant: an article replaces the one kept for its key (last occurrence wins)
RECURSIVE dedupLoop_KeepLast(_, _, _, _)
dedupLoop_KeepLast(articles, i, seen, deduped) ==
  IF i > Len(articles) THEN deduped
  ELSE LET key == normalizeUrl(articles[i].url)
       IN  dedupLoop_KeepLast(articles, i + 1, seen \cup {key},
             Append(SelectSeq(deduped, LAMBDA a : normalizeUrl(a.url) # key),
                    articles[i]))

\* deduplicateByUrl: single pass, first occurrence of each key is kept
RECURSIVE dedupLoop(_, _, _, _)
dedupLoop(articles, i, seen, deduped) ==
  IF i > Len(articles) THEN deduped
  ELSE LET key == normalizeUrl(articles[i].url)
       IN  IF key \notin seen
           THEN dedupLoop(articles, i + 1, seen \cup {key},
                          Append(deduped, articles[i]))
           ELSE dedupLoop(articles, i + 1, seen, deduped)

deduplicateByUrl(articles) == dedupLoop(articles, 1, {}, << >>)

(***************************************************************************)
(* Articles.  An article is [id, url, terms, pub, source]:                 *)
(*   id     stands for the title (one per provider item)                   *)
(*   terms  the table phrases that occur in lower-cased title + snippet    *)
(*   pub    publishedDate in hours, or NaD when new Date() is invalid      *)
(*   source the outlet name                                                *)
(***************************************************************************)
NaD == -1

Categories == {"tech", "politics", "economy", "sf-local"}

NoArticles == [c \in Categories |-> << >>]

SfKeywords ==
  <<[term |-> "san francisco", score |-> 10], [term |-> "bay area", score |-> 8],
    [term |-> "sf ", score |-> 5], [term |-> " sf", score |-> 5],
    [term |-> "silicon valley", score |-> 6], [term |-> "oakland", score |-> 4],
    [term |-> "berkeley", score |-> 4], [term |-> "bart", score |-> 5],
    [term |-> "caltrain", score |-> 4], [term |-> "golden gate", score |-> 5]>>

SfNeighborhoods ==
  <<"mission", "soma", "castro", "tenderloin", "haight", "marina",
    "noe valley", "potrero", "dogpatch", "sunset", "richmond",
    "north beach", "chinatown", "financial district", "embarcadero",
    "hayes valley", "pacific heights", "nob hill", "russian hill">>

\* outlets whose lower-cased name contains 'sf standard', 'mission local',
\* 'sfchronicle' or 'sfgate'
localSources == {"SF Standard", "Mission Local", "sfgate"}

RECURSIVE keywordScore(_, _)
keywordScore(terms, i) ==
  IF i > Len(SfKeywords) THEN 0
  ELSE (IF SfKeywords[i].term \in terms THEN SfKeywords[i].score ELSE 0)
       + keywordScore(terms, i + 1)

RECURSIVE neighborhoodScore(_, _)
neighborhoodScore(terms, i) ==
  IF i > Len(SfNeighborhoods) THEN 0
  ELSE (IF SfNeighborhoods[i] \in terms THEN 3 ELSE 0)
       + neighborhoodScore(terms, i + 1)

\* mutant: the sign of hoursAgo is not checked (a future date gets the bonus)
recencyBonus_NoSignCheck(pub, t) ==
  IF pub = NaD THEN 0
  ELSE LET hoursAgo == t - pub
       IN  IF hoursAgo < 6 THEN 10
           ELSE IF hoursAgo < 24 THEN 5
           ELSE IF hoursAgo < 72 THEN 2
           ELSE 0

\* mutant: the bonuses of the first and the third tier are exchanged
recencyBonus_TiersSwapped(pub, t) ==
  IF pub = NaD THEN 0
  ELSE LET hoursAgo == t - pub
       IN  IF hoursAgo > 0 /\ hoursAgo < 6 THEN 2
           ELSE IF hoursAgo > 0 /\ hoursAgo < 24 THEN 5
           ELSE IF hoursAgo > 0 /\ hoursAgo < 72 THEN 10
           ELSE 0

\* recency bonus for a publication date, at clock time t (hours)
recencyBonus(pub, t) ==
  IF pub = NaD THEN 0
  ELSE LET hoursAgo == t - pub
       IN  IF hoursAgo > 0 /\ hoursAgo < 6 THEN 10
           ELSE IF hoursAgo > 0 /\ hoursAgo < 24 THEN 5
           ELSE IF hoursAgo > 0 /\ hoursAgo < 72 THEN 2
           ELSE 0

scoreRelevance(article, t) ==
  keywordScore(article.terms, 1)
  + neighborhoodScore(article.terms, 1)
  + recencyBonus(article.pub, t)
  + (IF article.source \in localSources THEN 5 ELSE 0)

\* mutant: no date filter
filterByDate_Off(articles, fromDate) == articles

\* filterByDate: new Date() of an unparseable date is an Invalid Date, it
\* does not throw, and Invalid Date >= fromDate is false
filterByDate(articles, fromDate) ==
  IF fromDate = NaD THEN articles
  ELSE SelectSeq(articles, LAMBDA a : a.pub # NaD /\ a.pub >= fromDate)

\* mutant: an article is put before the articles of equal score
insertByScore_TiesReversed(sorted, a, t) ==
  IF sorted = << >> THEN <<a>>
  ELSE IF \A i \in DOMAIN sorted : scoreRelevance(sorted[i], t) < scoreRelevance(a, t)
       THEN <<a>> \o sorted
       ELSE LET k == CHOOSE i \in DOMAIN sorted :
                       /\ scoreRelevance(sorted[i], t) > scoreRelevance(a, t)
                       /\ \A j \in DOMAIN sorted :
                            scoreRelevance(sorted[j], t) > scoreRelevance(a, t) => j <= i
                  IN  SubSeq(sorted, 1, k) \o <<a>> \o SubSeq(sorted, k + 1, Len(sorted))

\* Array.prototype.sort((a, b) => b.score - a.score): stable, descending
RECURSIVE insertByScore(_, _, _)
insertByScore(sorted, a, t) ==
  IF sorted = << >> THEN <<a>>
  ELSE IF scoreRelevance(Head(sorted), t) >= scoreRelevance(a, t)
       THEN <<Head(sorted)>> \o insertByScore(Tail(sorted), a, t)
       ELSE <<a>> \o sorted

RECURSIVE sortByScore(_, _)
sortByScore(articles, t) ==
  IF articles = << >> THEN << >>
  ELSE insertByScore(sortByScore(SubSeq(articles, 1, Len(articles) - 1), t),
                     articles[Len(articles)], t)

slice(s, n) == SubSeq(s, 1, IF n < Len(s) THEN n ELSE Len(s))

\* deduplicateByUrl throws when an article has no url
dedupThrows(articles) == \E i \in DOMAIN articles : normalizeThrows(articles[i].url)

\* processCategory: filter by date, dedupe within category, score, sort, slice
processCategory(articles, fromDate, limit, t) ==
  slice(sortByScore(deduplicateByUrl(filterByDate(articles, fromDate)), t), limit)

processThrows(articles, fromDate) == dedupThrows(filterByDate(articles, fromDate))

\* mutant: the walk starts with tech
categoryOrder_TechFirst == <<"tech", "economy", "politics", "sf-local">>

\* cross-category deduplication, priority order sf-local > politics > economy > tech
categoryOrder == <<"sf-local", "politics", "economy", "tech">>

RECURSIVE filterSeen(_, _, _, _)
filterSeen(articles, i, seenUrls, kept) ==
  IF i > Len(articles) THEN [kept |-> kept, seen |-> seenUrls]
  ELSE LET normalizedUrl == normalizeUrlForDedup(articles[i].url)
       IN  IF normalizedUrl \in seenUrls
           THEN filterSeen(articles, i + 1, seenUrls, kept)
           ELSE filterSeen(articles, i + 1, seenUrls \cup {normalizedUrl},
                           Append(kept, articles[i]))

\* mutant: no cross-category pass
crossCategoryDedup_Skipped(res, k, seenUrls) == res

RECURSIVE crossCategoryDedup(_, _, _)
crossCategoryDedup(res, k, seenUrls) ==
  IF k > Len(categoryOrder) THEN res
  ELSE LET category == categoryOrder[k]
           f == filterSeen(res[category], 1, seenUrls, << >>)
       IN  crossCategoryDedup([res EXCEPT ![category] = f.kept], k + 1, f.seen)

(***************************************************************************)
(* Provider data: the documents the providers serve when they answer.      *)
(***************************************************************************)
Url(host, path) ==
  [scheme |-> "https", www |-> FALSE, host |-> host, path |-> path,
   slashes |-> 0, query |-> << >>, frag |-> FALSE]

Item(id, link, tags, terms, pubDate) ==
  [id |-> id, hasTitle |-> TRUE, link |-> link, tags |-> tags, terms |-> terms,
   pubDate |-> pubDate]

\* <item> elements of the two feeds; link = NoUrl: the item has no <link>
FeedDocs ==
  <<  \* SF Standard
    <<Item(1, Url("x.com", "/a"), << >>, {"san francisco"}, 99),
      Item(2, Url("x.com", "/b"), <<"politics">>, {"mayor"}, 50),
      Item(3, NoUrl, << >>, {"bay area"}, 99),
      Item(4, Url("x.com", "/c"), << >>, {"mission"}, NaD),
      Item(5, [Url("x.com", "/a") EXCEPT !.query = <<Param("page", "2")>>],
           <<"news">>, {"tech"}, 97)>>,
      \* Mission Local
    <<Item(6, [Url("x.com", "/a") EXCEPT !.www = TRUE, !.slashes = 1,
                 !.query = <<Param("utm_source", "t")>>],
           <<"technology">>, {"tech", "bay area"}, 98),
      Item(7, Url("x.com", "/d"), << >>, {"housing"}, 0),
      Item(8, [Url("x.com", "/b") EXCEPT !.query = <<Param("ref", "t")>>],
           << >>, {"business", "san francisco"}, 99)>> >>

Post(id, score, title, url, flair, text) ==
  [id |-> id, score |-> score, title |-> title, len |-> 40, url |-> url,
   flair |-> flair, text |-> text, created |-> 90]

\* data.children of the two subreddit listings; title: the phrases among
\* 'rule', 'weekly', 'thread' the lower-cased title contains and 'where' when
\* it starts with it; len: title.length; url: the external link, or the
\* permalink URL of a self post
Listings ==
  <<  \* r/sanfrancisco
    <<Post(9, 12, {}, Url("x.com", "/e"), "tech", {}),
      Post(10, 3, {"rule"}, Url("reddit.com", "/p10"), "", {}),
      Post(11, 20, {"where"}, Url("reddit.com", "/p11"), "", {"rent"}),
      Post(12, 30, {"rule"}, Url("x.com", "/r"), "", {"san francisco"}),
      [Post(13, 25, {}, Url("x.com", "/h"), "politics", {"bart"}) EXCEPT !.len = 4]>>,
      \* r/bayarea
    <<Post(14, 12, {}, Url("x.com", "/i"), "", {}),
      Post(15, 40, {}, [Url("x.com", "/e") EXCEPT !.slashes = 1], "tech", {"bay area"}),
      Post(16, 16, {}, [Url("", "") EXCEPT !.scheme = "", !.host = "not-a-valid-url"],
           "", {"mayor"}),
      Post(17, 50, {"weekly", "thread"}, Url("reddit.com", "/p17"), "", {}),
      Post(18, 18, {"weekly"}, Url("x.com", "/j"), "news", {"golden gate"})>> >>

Art(id, url, terms, pub, source) ==
  [id |-> id, url |-> url, terms |-> terms, pub |-> pub, source |-> source]

\* the articles fetchHackerNewsArticles makes of the top stories when the
\* provider answers: the SF-relevant stories, sorted by calculateRelevance
\* (story 19 names san francisco, story 20 silicon valley only)
HnStories ==
  <<Art(19, [Url("x.com", "/a") EXCEPT !.query = <<Param("utm_medium", "t")>>],
        {"san francisco"}, 96, "Hacker News"),
    Art(20, Url("x.com", "/f"), {"silicon valley"}, 40, "Hacker News")>>

\* data.data of the backup provider's answer for a category
BackupData ==
  [c \in Categories |->
     CASE c = "tech" ->
            <<Art(21, Url("x.com", "/g"), {"san francisco"}, 95, "TheNewsAPI"),
              Art(22, Url("x.com", "/a"), {}, 99, "sfgate")>>
       [] c = "politics" ->
            <<Art(23, Url("x.com", "/k"), {"san francisco"}, 30, "TheNewsAPI"),
              Art(24, [Url("x.com", "/b") EXCEPT !.www = TRUE], {}, 99, "TheNewsAPI")>>
       [] c = "economy" ->
            <<Art(25, Url("x.com", "/d"), {"bay area"}, 99, "TheNewsAPI")>>
       [] OTHER ->
            <<Art(26, Url("x.com", "/l"), {"castro", "mission"}, NaD, "TheNewsAPI"),
              Art(27, Url("x.com", "/a"), {"oakland"}, 200, "TheNewsAPI")>>]

\* an entry of data.data without url and published_at
BadEntry == Art(28, NoUrl, {}, NaD, "TheNewsAPI")

(***************************************************************************)
(* Feed adapter (RSS): parseFeed, inferCategory, fetchRSSArticles          *)
(***************************************************************************)
RSS_FEEDS == <<[name |-> "SF Standard"], [name |-> "Mission Local"]>>

Feeds == DOMAIN RSS_FEEDS

Entry(k, c) == [k |-> k, c |-> c]

CATEGORY_KEYWORDS_RSS ==
  <<Entry("technology", "tech"), Entry("tech", "tech"), Entry("ai", "tech"),
    Entry("artificial intelligence", "tech"), Entry("startup", "tech"),
    Entry("startups", "tech"), Entry("silicon valley", "tech"),
    Entry("software", "tech"), Entry("google", "tech"), Entry("meta", "tech"),
    Entry("openai", "tech"), Entry("salesforce", "tech"),
    Entry("politics", "politics"), Entry("government", "politics"),
    Entry("election", "politics"), Entry("mayor", "politics"),
    Entry("supervisor", "politics"), Entry("city hall", "politics"),
    Entry("legislation", "politics"), Entry("policy", "politics"),
    Entry("board of supervisors", "politics"),
    Entry("economy", "economy"), Entry("business", "economy"),
    Entry("housing", "economy"), Entry("real estate", "economy"),
    Entry("jobs", "economy"), Entry("employment", "economy"),
    Entry("downtown", "economy"), Entry("commercial", "economy"),
    Entry("retail", "economy"), Entry("development", "economy")>>

\* first table entry, in table order, whose keyword the text contains
RECURSIVE firstKeyword(_, _, _)
firstKeyword(table, text, i) ==
  IF i > Len(table) THEN "sf-local"
  ELSE IF table[i].k \in text THEN table[i].c
  ELSE firstKeyword(table, text, i + 1)

\* first tag that is a key of the table
RECURSIVE firstTag(_, _, _)
firstTag(table, tags, j) ==
  IF j > Len(tags) THEN "none"
  ELSE IF \E i \in DOMAIN table : table[i].k = toLowerCase(tags[j])
       THEN table[CHOOSE i \in DOMAIN table : table[i].k = toLowerCase(tags[j])].c
       ELSE firstTag(table, tags, j + 1)

\* inferCategory of the feed adapter: RSS categories first, then the text
inferCategoryRSS(tags, terms) ==
  IF firstTag(CATEGORY_KEYWORDS_RSS, tags, 1) # "none"
  THEN firstTag(CATEGORY_KEYWORDS_RSS, tags, 1)
  ELSE firstKeyword(CATEGORY_KEYWORDS_RSS, terms, 1)

\* the items.map(...).filter(...) of parseFeed: items without title or link
\* are skipped, an absent or invalid pubDate becomes the fetch time
RECURSIVE parseItems(_, _, _, _)
parseItems(items, i, name, t) ==
  IF i > Len(items) THEN << >>
  ELSE LET it == items[i]
           rest == parseItems(items, i + 1, name, t)
       IN  IF ~it.hasTitle \/ it.link = NoUrl THEN rest
           ELSE <<[a |-> Art(it.id, it.link, it.terms,
                             IF it.pubDate = NaD THEN t ELSE it.pubDate, name),
                   tags |-> it.tags]>> \o rest

\* the "Combine and categorize" loop of fetchRSSArticles over one feed's result
RECURSIVE categorizeRSS(_, _, _)
categorizeRSS(results, parsed, i) ==
  IF i > Len(parsed) THEN results
  ELSE LET category == inferCategoryRSS(parsed[i].tags, parsed[i].a.terms)
       IN  categorizeRSS([results EXCEPT ![category] = Append(@, parsed[i].a)],
                         parsed, i + 1)

\* mutant: one empty feed result empties the whole result
combineFeeds_AllOrNothing(results, feedResults, f) ==
  IF \E i \in DOMAIN feedResults : feedResults[i] = << >>
  THEN results
  ELSE categorizeRSS(categorizeRSS(results, feedResults[1], 1), feedResults[2], 1)

RECURSIVE combineFeeds(_, _, _)
combineFeeds(results, feedResults, f) ==
  IF f > Len(feedResults) THEN results
  ELSE combineFeeds(categorizeRSS(results, feedResults[f], 1), feedResults, f + 1)

(***************************************************************************)
(* Discussion-listing adapter (Reddit): fetchSubreddit, fetchRedditArticles*)
(***************************************************************************)
SUBREDDITS == <<[name |-> "sanfrancisco", minScore |-> 10],
                [name |-> "bayarea", minScore |-> 15]>>

CATEGORY_KEYWORDS_REDDIT ==
  <<Entry("tech", "tech"), Entry("startup", "tech"), Entry("ai", "tech"),
    Entry("software", "tech"), Entry("engineer", "tech"),
    Entry("developer", "tech"), Entry("google", "tech"), Entry("meta", "tech"),
    Entry("apple", "tech"), Entry("openai", "tech"), Entry("salesforce", "tech"),
    Entry("twitter", "tech"),
    Entry("mayor", "politics"), Entry("election", "politics"),
    Entry("vote", "politics"), Entry("supervisor", "politics"),
    Entry("breed", "politics"), Entry("legislation", "politics"),
    Entry("prop", "politics"), Entry("ballot", "politics"),
    Entry("city hall", "politics"),
    Entry("rent", "economy"), Entry("housing", "economy"),
    Entry("apartment", "economy"), Entry("lease", "economy"),
    Entry("job", "economy"), Entry("layoff", "economy"),
    Entry("office", "economy"), Entry("commercial", "economy"),
    Entry("downtown", "economy"), Entry("business", "economy")>>

\* the flair checks of inferCategory: includes('tech') || includes('job'), ...
flairCategory(flair) ==
  CASE flair \in {"tech", "jobs"}            -> "tech"
    [] flair \in {"politics", "government"}  -> "politics"
    [] flair \in {"housing", "rent"}         -> "economy"
    [] OTHER                                 -> "none"

\* inferCategory of the discussion-listing adapter: flair first, then the
\* keywords over title + selftext + flair
inferCategoryReddit(text, flair) ==
  IF flair # "" /\ flairCategory(flair) # "none" THEN flairCategory(flair)
  ELSE firstKeyword(CATEGORY_KEYWORDS_REDDIT,
                    text \cup (IF flair = "" THEN {} ELSE {flair}), 1)

\* the filter of fetchSubreddit
keepPost(post, minScore) ==
  /\ ~(post.score < minScore)
  /\ "rule" \notin post.title
  /\ ~("weekly" \in post.title /\ "thread" \in post.title)

\* children.filter(...).map(...) of fetchSubreddit, each article with its _category
RECURSIVE convertPosts(_, _, _)
convertPosts(children, i, sub) ==
  IF i > Len(children) THEN << >>
  ELSE LET p == children[i]
           rest == convertPosts(children, i + 1, sub)
       IN  IF keepPost(p, sub.minScore)
           THEN <<[a |-> Art(p.id, p.url, p.text, p.created, "Reddit r/" \o sub.name),
                   category |-> inferCategoryReddit(p.text, p.flair)]>> \o rest
           ELSE rest

\* the inner loop of fetchRedditArticles: results[category].push(cleanArticle)
RECURSIVE pushByCategory(_, _, _)
pushByCategory(results, converted, i) ==
  IF i > Len(converted) THEN results
  ELSE pushByCategory([results EXCEPT ![converted[i].category] = Append(@, converted[i].a)],
                      converted, i + 1)

(***************************************************************************)
(* Harness for the pure URL functions: two articles whose URLs are a base  *)
(* URL and an edited copy of it; normalizeUrl and deduplicateByUrl are     *)
(* applied to them.                                                        *)
(***************************************************************************)
\* parameters a base URL may carry
BasePairs == {Param("page", "1"), Param("page", "2"), Param("id", "Q"),
              Param("utm_source", "t")}

NonTrackingPairs == {Param("page", "1"), Param("page", "2"), Param("id", "Q")}

TrackingPairs == {Param(trackingParams[i], "t") : i \in DOMAIN trackingParams}

RECURSIVE SeqsUpTo(_, _)
SeqsUpTo(S, n) ==
  IF n = 0 THEN {<< >>}
  ELSE LET shorter == SeqsUpTo(S, n - 1)
       IN  shorter \cup {Append(q, x) : q \in shorter, x \in S}

BaseUrls ==
  [scheme : {"https", ""}, www : BOOLEAN, host : {"x.com"},
   path : {"", "/a", "/A"}, slashes : 0 .. MaxSlashes,
   query : SeqsUpTo(BasePairs, MaxParams), frag : BOOLEAN]

TestArticle(i, u) ==
  [id |-> i, url |-> u, terms |-> {}, pub |-> 0, source |-> "Test"]

AddFront(u, p) == [u EXCEPT !.query = <<p>> \o u.query]
AddBack(u, p)  == [u EXCEPT !.query = Append(u.query, p)]

today == now \div 24        \* new Date().toDateString()

\* mutant: the credential is not looked at
hasCredential_Always(key) == TRUE

\* if (!apiKey) of fetchTheNewsAPIArticles and isTheNewsAPIAvailable
hasCredential(key) == key

\* mutant: the counter is not reset on a new day
usageAfterReset_Never(usage, resetDate, day) == usage

\* checkAndResetUsage: the usage counter after it, on day `day`
usageAfterReset(usage, resetDate, day) == IF day # resetDate THEN 0 ELSE usage

\* mutant: the whole daily quota may be used
budgetExhausted_FullQuota(usage) == usage >= SafetyLimit + 5

DailyQuota == 100       \* getRemainingRequests: 100 - dailyUsage

\* Math.max(0, 100 - dailyUsage)
remainingOf(usage) == IF DailyQuota - usage > 0 THEN DailyQuota - usage ELSE 0

\* if (dailyUsage >= 95): the call is refused
budgetExhausted(usage) == usage >= SafetyLimit

Callers == 1 .. MaxCallers

IdleCall == [st |-> "idle", cat |-> "none", out |-> << >>]

ClientIdle ==
  /\ call = [c \in Callers |-> IdleCall]
  /\ available = "none"
  /\ remaining = << >>

Kinds == {"news", "activities"}

Loaders == 1 .. MaxLoaders

IdleLoader == [st |-> "idle", kind |-> "none", got |-> << >>]

\* let newsCache = null ... let activitiesCachePromise = null; no request yet
LoaderIdle ==
  /\ cache = [k \in Kinds |-> << >>]
  /\ cachePromise = [k \in Kinds |-> FALSE]
  /\ requests = [k \in Kinds |-> 0]
  /\ loader = [c \in Loaders |-> IdleLoader]

ScoreIdle ==
  /\ sarts = << >>
  /\ sscores = << >>

DedupIdle ==
  /\ dlist = << >>
  /\ dout = << >>
  /\ dphase = "none"

NormIdle ==
  /\ DedupIdle
  /\ nphase = "none"
  /\ nurls = << >>
  /\ nkeys = << >>
  /\ nkeys2 = << >>
  /\ ndedup = << >>

MainIdle ==
  /\ pc = "idle"
  /\ opts = [op |-> "none", category |-> "none", limit |-> DefaultLimit,
             fromDate |-> NaD, skipBackup |-> FALSE]
  /\ feed = [i \in Feeds |-> [st |-> "idle", ok |-> FALSE, out |-> << >>]]
  /\ rssSt = "idle"
  /\ rssAll = NoArticles
  /\ redditSt = "idle"
  /\ redditIdx = 1
  /\ redditAll = NoArticles
  /\ hnSt = "idle"
  /\ hnArticles = << >>
  /\ feedOrder = << >>
  /\ settled = << >>
  /\ combined = NoArticles
  /\ primary = NoArticles
  /\ needsBackup = << >>
  /\ backupCat = "none"
  /\ backupLog = << >>
  /\ processed = NoArticles
  /\ result = NoArticles
  /\ now = 100

InitNorm ==
  /\ MainIdle
  /\ ClientIdle
  /\ LoaderIdle
  /\ ScoreIdle
  /\ DedupIdle
  /\ apiKey = FALSE /\ dailyUsage = 0 /\ usageResetDate = today
  /\ usageAtStart = 0
  /\ nphase = "input"
  /\ \E u \in BaseUrls : nurls = <<u, u>>
  /\ nkeys = << >>
  /\ nkeys2 = << >>
  /\ ndedup = << >>

\* the second URL gets tracking parameters the first does not have (or the
\* first gets them: the pair is then swapped)
EditTracking ==
  /\ nphase = "input"
  /\ \E p \in TrackingPairs, front \in BOOLEAN, swap \in BOOLEAN :
       LET u == nurls[1]
           e == IF front THEN AddFront(u, p) ELSE AddBack(u, p)
       IN  nurls' = IF swap THEN <<e, u>> ELSE <<u, e>>
  /\ nphase' = "tracking"
  /\ UNCHANGED <<nkeys, nkeys2, ndedup, dedupVars, mainVars, clientVars, scoreVars, loaderVars>>

\* the second URL gets a further non-tracking parameter, or another value for
\* one it has
EditNonTracking ==
  /\ nphase = "input"
  /\ LET u == nurls[1]
     IN  \/ \E p \in NonTrackingPairs, front \in BOOLEAN :
              nurls' = <<u, IF front THEN AddFront(u, p) ELSE AddBack(u, p)>>
         \/ \E i \in DOMAIN u.query, p \in NonTrackingPairs :
              /\ u.query[i] \in NonTrackingPairs
              /\ p.n = u.query[i].n
              /\ p.v # u.query[i].v
              /\ nurls' = <<u, [u EXCEPT !.query[i] = p]>>
  /\ nphase' = "nontracking"
  /\ UNCHANGED <<nkeys, nkeys2, ndedup, dedupVars, mainVars, clientVars, scoreVars, loaderVars>>

\* the second URL gets a "www." prefix and/or one more trailing slash
EditHostPath ==
  /\ nphase = "input"
  /\ LET u == nurls[1]
     IN  /\ ~u.www
         /\ u.slashes = 0
         /\ \E w \in BOOLEAN, s \in 0 .. 1, swap \in BOOLEAN :
              /\ w \/ s = 1
              /\ LET e == [u EXCEPT !.www = w, !.slashes = s]
                 IN  nurls' = IF swap THEN <<e, u>> ELSE <<u, e>>
  /\ nphase' = "hostpath"
  /\ UNCHANGED <<nkeys, nkeys2, ndedup, dedupVars, mainVars, clientVars, scoreVars, loaderVars>>

\* normalizeUrl on both URLs and on the keys, deduplicateByUrl on the pair
ApplyNorm ==
  /\ nphase \in {"input", "tracking", "nontracking", "hostpath"}
  /\ nkeys' = [i \in 1 .. 2 |-> normalizeUrl(nurls[i])]
  /\ nkeys2' = [i \in 1 .. 2 |-> normalizeUrl(normalizeUrl(nurls[i]))]
  /\ ndedup' = deduplicateByUrl(<<TestArticle(1, nurls[1]), TestArticle(2, nurls[2])>>)
  /\ nphase' = nphase \o "-applied"
  /\ UNCHANGED <<nurls, dedupVars, mainVars, clientVars, scoreVars, loaderVars>>

NextNorm == EditTracking \/ EditNonTracking \/ EditHostPath \/ ApplyNorm

SpecNorm == InitNorm /\ [][NextNorm]_vars

(***************************************************************************)
(* Harness for deduplicateByUrl on its own: a list of up to MaxList        *)
(* articles whose URLs are drawn from parseable URLs with equal and with   *)
(* different keys and from strings new URL() rejects.                      *)
(***************************************************************************)
Unparseable(text) == [Url(text, "") EXCEPT !.scheme = ""]

DedupUrls ==
  {Url("x.com", "/a"),
   [Url("x.com", "/a") EXCEPT !.www = TRUE, !.slashes = 1],
   [Url("x.com", "/a") EXCEPT !.query = <<Param("page", "2")>>],
   Unparseable("not-a-valid-url"),
   Unparseable("also-not-valid"),
   [Unparseable("not-a-valid-url") EXCEPT !.frag = TRUE],
   [Unparseable("x.com") EXCEPT !.path = "/A"]}

InitDedup ==
  /\ MainIdle
  /\ ClientIdle
  /\ LoaderIdle
  /\ ScoreIdle
  /\ apiKey = FALSE /\ dailyUsage = 0 /\ usageResetDate = today
  /\ usageAtStart = 0
  /\ nphase = "none" /\ nurls = << >> /\ nkeys = << >> /\ nkeys2 = << >>
  /\ ndedup = << >>
  /\ dphase = "input"
  /\ dout = << >>
  /\ \E urls \in SeqsUpTo(DedupUrls, MaxList) :
       dlist = [i \in DOMAIN urls |-> TestArticle(i, urls[i])]

\* deduplicateByUrl(articles)
ApplyDedup ==
  /\ dphase = "input"
  /\ dout' = deduplicateByUrl(dlist)
  /\ dphase' = "applied"
  /\ UNCHANGED <<dlist, nurls, nkeys, nkeys2, ndedup, nphase, mainVars, clientVars,
                 scoreVars, loaderVars>>

NextDedup == ApplyDedup

SpecDedup == InitDedup /\ [][NextDedup]_vars

(***************************************************************************)
(* The aggregation run: one call of fetchAllCategories or of               *)
(* fetchFromAllSources, the adapters it starts and the backup adapter.     *)
(***************************************************************************)
Outcomes == {"ok", "http_error", "throw"}          \* of a fetch()

BackupOutcomes == {"ok", "http_error", "throw", "bad_item"}

Limits == {2, DefaultLimit}

\* NaD: no fromDate given; 60: amid the articles' dates; 150: after all of
\* the primary sources' dates
FromDates == {NaD, 60, 150}

Init ==
  /\ MainIdle
  /\ NormIdle
  /\ ClientIdle
  /\ LoaderIdle
  /\ ScoreIdle
  /\ \E b \in {[k |-> TRUE, u |-> 0, back |-> 0],
                [k |-> TRUE, u |-> SafetyLimit - 1, back |-> 0],
                [k |-> TRUE, u |-> SafetyLimit, back |-> 0],
                [k |-> TRUE, u |-> SafetyLimit, back |-> 1],
                [k |-> FALSE, u |-> 0, back |-> 0]} :
       /\ apiKey = b.k
       /\ dailyUsage = b.u
       /\ usageResetDate = today - b.back
       /\ usageAtStart = b.u

launchRSS ==
  /\ feed' = [i \in Feeds |-> [st |-> "try1", ok |-> FALSE, out |-> << >>]]
  /\ rssSt' = "running"
  /\ rssAll' = NoArticles
  /\ feedOrder' = << >>

launchReddit ==
  /\ redditSt' = "fetch"
  /\ redditIdx' = 1
  /\ redditAll' = NoArticles

launchHN ==
  /\ hnSt' = "running"
  /\ hnArticles' = << >>

rssVars == <<feed, rssSt, rssAll>>
redditVars == <<redditSt, redditIdx, redditAll>>
hnVars == <<hnSt, hnArticles>>

\* fetchWithRetry, first fetch: a response that is ok is returned, anything
\* else is retried after 1 s
FeedResponse1(i) ==
  /\ feed[i].st = "try1"
  /\ \E o \in Outcomes :
       feed' = [feed EXCEPT ![i] =
                  IF o = "ok"
                  THEN [st |-> "done", ok |-> TRUE,
                        out |-> parseItems(slice(FeedDocs[i], FeedItemLimit), 1,
                                           RSS_FEEDS[i].name, now)]
                  ELSE [st |-> "wait", ok |-> FALSE, out |-> << >>]]
  /\ feedOrder' = IF feed'[i].st = "done" THEN Append(feedOrder, i) ELSE feedOrder
  /\ UNCHANGED <<settled, rssSt, rssAll, redditVars, hnVars, orchVars, budgetVars, normVars, clientVars, scoreVars, loaderVars>>

\* the 1 s timer of fetchWithRetry fires: second fetch
FeedTimer(i) ==
  /\ feed[i].st = "wait"
  /\ feed' = [feed EXCEPT ![i].st = "try2"]
  /\ UNCHANGED <<feedOrder, settled, rssSt, rssAll, redditVars, hnVars, orchVars, budgetVars, normVars, clientVars, scoreVars, loaderVars>>

\* mutant: a second fetch that fails is retried after another wait
FeedResponse2_RetryAgain(i) ==
  /\ feed[i].st = "try2"
  /\ \E o \in Outcomes :
       feed' = [feed EXCEPT ![i] =
                  IF o = "ok"
                  THEN [st |-> "done", ok |-> TRUE,
                        out |-> parseItems(slice(FeedDocs[i], FeedItemLimit), 1,
                                           RSS_FEEDS[i].name, now)]
                  ELSE [st |-> "wait", ok |-> FALSE, out |-> << >>]]
  /\ feedOrder' = IF feed'[i].st = "done" THEN Append(feedOrder, i) ELSE feedOrder
  /\ UNCHANGED <<settled, rssSt, rssAll, redditVars, hnVars, orchVars, budgetVars,
                 normVars, clientVars, scoreVars, loaderVars>>

\* second fetch: its response is returned as it is; parseFeed returns [] when
\* it is not ok or when the fetch throws
FeedResponse2(i) ==
  /\ feed[i].st = "try2"
  /\ \E o \in Outcomes :
       feed' = [feed EXCEPT ![i] =
                  [st |-> "done", ok |-> (o = "ok"),
                   out |-> IF o = "ok"
                           THEN parseItems(slice(FeedDocs[i], FeedItemLimit), 1,
                                           RSS_FEEDS[i].name, now)
                           ELSE << >>]]
  /\ feedOrder' = Append(feedOrder, i)
  /\ UNCHANGED <<settled, rssSt, rssAll, redditVars, hnVars, orchVars, budgetVars, normVars, clientVars, scoreVars, loaderVars>>

\* fetchRSSArticles after Promise.all: combine and categorize in feed order
RssCombine ==
  /\ rssSt = "running"
  /\ \A i \in Feeds : feed[i].st = "done"
  /\ rssAll' = combineFeeds(NoArticles, [i \in Feeds |-> feed[i].out], 1)
  /\ rssSt' = "done"
  /\ settled' = Append(settled, "rss")
  /\ UNCHANGED <<feed, feedOrder, redditVars, hnVars, orchVars, budgetVars, normVars, clientVars, scoreVars, loaderVars>>

\* mutant: a subreddit that fails ends the loop
SubredditResponse_FailureEnds ==
  /\ redditSt = "fetch"
  /\ \E o \in Outcomes :
       IF o = "ok"
       THEN /\ redditAll' = pushByCategory(redditAll,
                               convertPosts(Listings[redditIdx], 1, SUBREDDITS[redditIdx]), 1)
            /\ redditSt' = "delay"
            /\ settled' = settled
       ELSE /\ redditAll' = redditAll
            /\ redditSt' = "done"
            /\ settled' = Append(settled, "reddit")
  /\ UNCHANGED <<redditIdx, feedOrder, rssVars, hnVars, orchVars, budgetVars, normVars,
                 clientVars, scoreVars, loaderVars>>

\* fetchSubreddit answers for the current subreddit
SubredditResponse ==
  /\ redditSt = "fetch"
  /\ \E o \in Outcomes :
       LET articles == IF o = "ok"
                       THEN convertPosts(Listings[redditIdx], 1, SUBREDDITS[redditIdx])
                       ELSE << >>
       IN  redditAll' = pushByCategory(redditAll, articles, 1)
  /\ redditSt' = "delay"
  /\ UNCHANGED <<redditIdx, settled, feedOrder, rssVars, hnVars, orchVars, budgetVars, normVars, clientVars, scoreVars, loaderVars>>

\* the 500 ms delay after a subreddit is over
RedditDelay ==
  /\ redditSt = "delay"
  /\ IF redditIdx < Len(SUBREDDITS)
     THEN redditIdx' = redditIdx + 1 /\ redditSt' = "fetch" /\ settled' = settled
     ELSE redditIdx' = redditIdx /\ redditSt' = "done"
          /\ settled' = Append(settled, "reddit")
  /\ UNCHANGED <<redditAll, feedOrder, rssVars, hnVars, orchVars, budgetVars, normVars, clientVars, scoreVars, loaderVars>>

\* fetchHackerNewsArticles settles: with the articles when topstories.json
\* answers, with [] when the response is not ok or the fetch throws
HnResponse ==
  /\ hnSt = "running"
  /\ \E o \in Outcomes :
       hnArticles' = IF o = "ok" THEN HnStories ELSE << >>
  /\ hnSt' = "done"
  /\ settled' = Append(settled, "hn")
  /\ UNCHANGED <<feedOrder, rssVars, redditVars, orchVars, budgetVars, normVars, clientVars, scoreVars, loaderVars>>

\* fetchAllCategories is called: the three primary adapters start in parallel
StartAll ==
  /\ pc = "idle"
  /\ \E limit \in Limits, fromDate \in FromDates, skipBackup \in BOOLEAN :
       opts' = [op |-> "all", category |-> "none", limit |-> limit,
                fromDate |-> fromDate, skipBackup |-> skipBackup]
  /\ pc' = "fetch"
  /\ launchRSS /\ launchReddit /\ launchHN
  /\ settled' = << >>
  /\ usageAtStart' = dailyUsage
  /\ UNCHANGED <<combined, primary, needsBackup, backupCat, backupLog, processed,
                 result, now, budgetVars, normVars, clientVars, scoreVars, loaderVars>>

\* Object.entries(combined): the order of the object literal
combinedOrder == <<"tech", "politics", "economy", "sf-local">>

\* mutant: the articles are counted after the date filter and the dedup
needsBackupOf_AfterFilter(c) ==
  SelectSeq(combinedOrder,
            LAMBDA cat : Len(deduplicateByUrl(filterByDate(c[cat], opts.fromDate)))
                           < MinArticles)

\* mutant: a category with exactly MinArticles articles needs backup too
needsBackupOf_Inclusive(c) ==
  SelectSeq(combinedOrder, LAMBDA cat : Len(c[cat]) <= MinArticles)

\* "Check which categories need backup"
needsBackupOf(c) ==
  SelectSeq(combinedOrder, LAMBDA cat : Len(c[cat]) < MinArticles)

\* mutant: skipBackup is not consulted
backupQueueAll_IgnoreSkip(c, skipBackup) == needsBackupOf(c)

\* the backup calls fetchAllCategories makes: none with skipBackup
backupQueueAll(c, skipBackup) ==
  IF ~skipBackup /\ Len(needsBackupOf(c)) > 0 THEN needsBackupOf(c) ELSE << >>

\* the backup call fetchFromAllSources makes
backupQueueOne(allArticles, category, skipBackup) ==
  IF ~skipBackup /\ Len(allArticles) < MinArticlesOne THEN <<category>> ELSE << >>

\* what an adapter contributed to a category
contribution(adapter, rss, reddit, hn, cat) ==
  CASE adapter = "rss" -> rss[cat]
    [] adapter = "reddit" -> reddit[cat]
    [] OTHER -> IF cat = "tech" THEN hn ELSE << >>

\* mutant: the results are combined in the order the adapters settled
combineSources_CompletionOrder(rss, reddit, hn) ==
  [cat \in Categories |->
     contribution(settled[1], rss, reddit, hn, cat)
       \o contribution(settled[2], rss, reddit, hn, cat)
       \o contribution(settled[3], rss, reddit, hn, cat)]

\* "Combine by category": the object literal of fetchAllCategories, built
\* from the array Promise.all resolved to (in the order of the calls)
combineSources(rss, reddit, hn) ==
  [cat \in Categories |->
     IF cat = "tech"
     THEN rss[cat] \o reddit[cat] \o hn
     ELSE rss[cat] \o reddit[cat]]

\* fetchAllCategories after Promise.all: combine by category in the order
\* RSS, Reddit, Hacker News and list the categories that need backup
AllCombine ==
  /\ pc = "fetch"
  /\ rssSt = "done" /\ redditSt = "done" /\ hnSt = "done"
  /\ LET c == combineSources(rssAll, redditAll, hnArticles)
     IN  /\ combined' = c
         /\ primary' = c
         /\ needsBackup' = backupQueueAll(c, opts.skipBackup)
  /\ pc' = "backup"
  /\ UNCHANGED <<opts, backupCat, backupLog, usageAtStart, processed, result, now,
                 adapterVars, orderVars, budgetVars, normVars, clientVars, scoreVars, loaderVars>>

\* what fetchTheNewsAPIArticles returns once its fetch has settled with
\* outcome o: the mapped entries of data.data, or [] (not ok, or caught)
backupReturned(cat, o) ==
  CASE o = "ok" -> slice(BackupData[cat], BackupLimit)
    [] o = "bad_item" -> <<BadEntry>>
    [] OTHER -> << >>

\* const response = await fetch(url); dailyUsage++ : the increment is the
\* statement after the awaited fetch, so it does not run when fetch throws
usageAfterFetch(usage, o) == IF o = "throw" THEN usage ELSE usage + 1

\* mutant: the loop does not wait for the call it made
mayStartBackup_NoAwait(inflight) == TRUE

\* for (const cat of needsBackup) { ... await fetchTheNewsAPIArticles(cat, 10) }:
\* the loop goes on to the next category when the awaited call has returned
mayStartBackup(inflight) == inflight = "none"

\* fetchTheNewsAPIArticles(cat) up to its fetch: without API key, or with the
\* usage at the safety limit after checkAndResetUsage, it returns [] at once;
\* otherwise the request is sent
BackupStart ==
  /\ pc = "backup"
  /\ needsBackup # << >>
  /\ mayStartBackup(backupCat)
  /\ needsBackup' = Tail(needsBackup)
  /\ feedOrder' = << >> /\ settled' = << >>
  /\ LET cat == Head(needsBackup)
         usage == usageAfterReset(dailyUsage, usageResetDate, today)
     IN  IF ~hasCredential(apiKey)
         THEN /\ backupLog' = Append(backupLog, [cat |-> cat, requested |-> FALSE,
                                                 returned |-> << >>])
              /\ UNCHANGED <<backupCat, dailyUsage, usageResetDate>>
         ELSE /\ dailyUsage' = usage
              /\ usageResetDate' = today
              /\ IF budgetExhausted(usage)
                 THEN /\ backupLog' = Append(backupLog, [cat |-> cat, requested |-> FALSE,
                                                         returned |-> << >>])
                      /\ UNCHANGED backupCat
                 ELSE /\ backupCat' = cat
                      /\ UNCHANGED backupLog
  /\ UNCHANGED <<pc, opts, combined, primary, usageAtStart, processed, result, now,
                 apiKey, adapterVars, normVars, clientVars, scoreVars, loaderVars>>

\* the backup request settles: dailyUsage++ runs after the awaited fetch, so
\* not when the fetch throws; the articles returned are pushed to combined[cat]
BackupResponse ==
  /\ pc = "backup"
  /\ backupCat # "none"
  /\ \E o \in BackupOutcomes :
       LET returned == backupReturned(backupCat, o)
       IN  /\ dailyUsage' = usageAfterFetch(dailyUsage, o)
           /\ combined' = [combined EXCEPT ![backupCat] = @ \o returned]
           /\ backupLog' = Append(backupLog, [cat |-> backupCat, requested |-> TRUE,
                                              returned |-> returned])
  /\ backupCat' = "none"
  /\ UNCHANGED <<pc, opts, primary, needsBackup, usageAtStart, processed, result, now,
                 apiKey, usageResetDate, adapterVars, orderVars, normVars, clientVars, scoreVars, loaderVars>>

\* fetchAllCategories after the backup loop: processCategory for each
\* category, then the cross-category deduplication; an exception of
\* deduplicateByUrl rejects the promise
AllFinish ==
  /\ pc = "backup"
  /\ opts.op = "all"
  /\ needsBackup = << >>
  /\ backupCat = "none"
  /\ feedOrder' = << >> /\ settled' = << >>
  /\ IF \E cat \in Categories : processThrows(combined[cat], opts.fromDate)
     THEN /\ pc' = "threw"
          /\ UNCHANGED <<processed, result>>
     ELSE LET p == [cat \in Categories |->
                     processCategory(combined[cat], opts.fromDate, opts.limit, now)]
          IN  /\ processed' = p
              /\ result' = crossCategoryDedup(p, 1, {})
              /\ pc' = "done"
  /\ UNCHANGED <<opts, combined, primary, needsBackup, backupCat, backupLog,
                 usageAtStart, now, adapterVars, budgetVars, normVars, clientVars, scoreVars, loaderVars>>

\* fetchFromAllSources(category) is called: the RSS adapter starts
StartOne ==
  /\ pc = "idle"
  /\ \E category \in Categories, limit \in Limits, fromDate \in FromDates,
        skipBackup \in BOOLEAN :
       opts' = [op |-> "one", category |-> category, limit |-> limit,
                fromDate |-> fromDate, skipBackup |-> skipBackup]
  /\ pc' = "rss"
  /\ launchRSS
  /\ settled' = << >>
  /\ usageAtStart' = dailyUsage
  /\ UNCHANGED <<combined, primary, needsBackup, backupCat, backupLog, processed,
                 result, now, redditVars, hnVars, budgetVars, normVars, clientVars, scoreVars, loaderVars>>

\* step 4 of fetchFromAllSources: backup when fewer than 5 articles so far
backupDecision(allArticles) ==
  /\ primary' = [NoArticles EXCEPT ![opts.category] = allArticles]
  /\ needsBackup' = backupQueueOne(allArticles, opts.category, opts.skipBackup)
  /\ pc' = "backup"

\* step 1 is over: push rssArticles[category], call the Reddit adapter
OneRss ==
  /\ pc = "rss"
  /\ rssSt = "done"
  /\ combined' = [combined EXCEPT ![opts.category] = @ \o rssAll[opts.category]]
  /\ launchReddit
  /\ feedOrder' = << >>
  /\ pc' = "reddit"
  /\ UNCHANGED <<opts, primary, needsBackup, backupCat, backupLog, usageAtStart,
                 processed, result, now, settled, rssVars, hnVars, budgetVars, normVars,
                 clientVars, scoreVars, loaderVars>>

\* step 2 is over: push redditArticles[category]; tech goes on to Hacker News
OneReddit ==
  /\ pc = "reddit"
  /\ redditSt = "done"
  /\ LET allArticles == combined[opts.category] \o redditAll[opts.category]
     IN  /\ combined' = [combined EXCEPT ![opts.category] = allArticles]
         /\ IF opts.category = "tech"
            THEN /\ launchHN
                 /\ pc' = "hn"
                 /\ UNCHANGED <<primary, needsBackup>>
            ELSE /\ backupDecision(allArticles)
                 /\ UNCHANGED hnVars
  /\ UNCHANGED <<opts, backupCat, backupLog, usageAtStart, processed, result, now,
                 orderVars, rssVars, redditVars, budgetVars, normVars, clientVars, scoreVars, loaderVars>>

\* step 3 is over (tech only): push hnArticles
OneHn ==
  /\ pc = "hn"
  /\ hnSt = "done"
  /\ LET allArticles == combined[opts.category] \o hnArticles
     IN  /\ combined' = [combined EXCEPT ![opts.category] = allArticles]
         /\ backupDecision(allArticles)
  /\ UNCHANGED <<opts, backupCat, backupLog, usageAtStart, processed, result, now,
                 adapterVars, orderVars, budgetVars, normVars, clientVars, scoreVars, loaderVars>>

\* fetchFromAllSources after step 4: filter, dedupe, score, sort, take top N
OneFinish ==
  /\ pc = "backup"
  /\ opts.op = "one"
  /\ needsBackup = << >>
  /\ backupCat = "none"
  /\ feedOrder' = << >> /\ settled' = << >>
  /\ IF processThrows(combined[opts.category], opts.fromDate)
     THEN /\ pc' = "threw"
          /\ UNCHANGED <<processed, result>>
     ELSE LET p == [NoArticles EXCEPT ![opts.category] =
                     processCategory(combined[opts.category], opts.fromDate,
                                     opts.limit, now)]
          IN  /\ processed' = p
              /\ result' = p
              /\ pc' = "done"
  /\ UNCHANGED <<opts, combined, primary, needsBackup, backupCat, backupLog,
                 usageAtStart, now, adapterVars, budgetVars, normVars, clientVars, scoreVars, loaderVars>>

Next ==
  \/ StartAll \/ AllCombine \/ AllFinish
  \/ StartOne \/ OneRss \/ OneReddit \/ OneHn \/ OneFinish
  \/ BackupStart \/ BackupResponse
  \/ \E i \in Feeds : FeedResponse1(i) \/ FeedTimer(i) \/ FeedResponse2(i)
  \/ RssCombine \/ SubredditResponse \/ RedditDelay \/ HnResponse

Spec == Init /\ [][Next]_vars

\* the steps the program takes by itself once what it awaits is there: its
\* timers and the continuations after Promise.all and after each await
ProgramSteps ==
  \/ \E i \in Feeds : FeedTimer(i)
  \/ RssCombine \/ RedditDelay
  \/ AllCombine \/ BackupStart \/ AllFinish
  \/ OneRss \/ OneReddit \/ OneHn \/ OneFinish

\* the run with the event loop scheduling every step of the program that is
\* ready; nothing obliges a provider to answer (no fetch has a timeout)
SpecLive == Init /\ [][Next]_vars /\ WF_vars(ProgramSteps)

(***************************************************************************)
(* The backup client on its own: callers of fetchTheNewsAPIArticles that   *)
(* may overlap, isTheNewsAPIAvailable, and the day changing.               *)
(***************************************************************************)
InitBudget ==
  /\ MainIdle
  /\ NormIdle
  /\ ClientIdle
  /\ LoaderIdle
  /\ ScoreIdle
  /\ apiKey \in BOOLEAN
  /\ dailyUsage \in (IF apiKey
                     THEN {0, SafetyLimit - 2, SafetyLimit - 1, SafetyLimit}
                     ELSE {0})
  /\ usageResetDate \in {today, today - 1}
  /\ usageAtStart = dailyUsage

\* the categories the callers ask for
CallCategories == {"tech", "sf-local"}

\* fetchTheNewsAPIArticles(cat) is called by caller c and runs up to its
\* fetch: [] at once without API key or with the budget used up
CallStart(c) ==
  /\ call[c].st = "idle"
  /\ \E cat \in CallCategories :
       IF ~hasCredential(apiKey)
       THEN /\ call' = [call EXCEPT ![c] = [st |-> "done", cat |-> cat, out |-> << >>]]
            /\ UNCHANGED <<dailyUsage, usageResetDate>>
       ELSE LET usage == usageAfterReset(dailyUsage, usageResetDate, today)
            IN  /\ dailyUsage' = usage
                /\ usageResetDate' = today
                /\ call' = [call EXCEPT ![c] =
                              IF budgetExhausted(usage)
                              THEN [st |-> "done", cat |-> cat, out |-> << >>]
                              ELSE [st |-> "inflight", cat |-> cat, out |-> << >>]]
  /\ UNCHANGED <<apiKey, available, remaining, orchVars, adapterVars, orderVars,
                 normVars, scoreVars, loaderVars>>

\* the fetch of caller c settles
CallSettle(c) ==
  /\ call[c].st = "inflight"
  /\ \E o \in BackupOutcomes :
       /\ dailyUsage' = usageAfterFetch(dailyUsage, o)
       /\ call' = [call EXCEPT ![c] = [st |-> "done", cat |-> call[c].cat,
                                       out |-> backupReturned(call[c].cat, o)]]
  /\ UNCHANGED <<apiKey, usageResetDate, available, remaining, orchVars, adapterVars,
                 orderVars,
                 normVars, scoreVars, loaderVars>>

\* isTheNewsAPIAvailable()
IsAvailable ==
  /\ IF ~hasCredential(apiKey)
     THEN /\ available' = "false"
          /\ UNCHANGED <<dailyUsage, usageResetDate>>
     ELSE LET usage == usageAfterReset(dailyUsage, usageResetDate, today)
          IN  /\ dailyUsage' = usage
              /\ usageResetDate' = today
              /\ available' = IF budgetExhausted(usage) THEN "false" ELSE "true"
  /\ UNCHANGED <<apiKey, call, remaining, orchVars, adapterVars, orderVars, normVars,
                 scoreVars, loaderVars>>

\* getRemainingRequests()
GetRemaining ==
  /\ LET usage == usageAfterReset(dailyUsage, usageResetDate, today)
     IN  /\ dailyUsage' = usage
         /\ usageResetDate' = today
         /\ remaining' = <<remainingOf(usage)>>
  /\ UNCHANGED <<apiKey, call, available, orchVars, adapterVars, orderVars, normVars,
                 scoreVars, loaderVars>>

\* midnight passes: new Date().toDateString() changes
NextDay ==
  /\ now + 24 <= 100 + 24 * MaxDays
  /\ now' = now + 24
  /\ UNCHANGED <<pc, opts, combined, primary, needsBackup, backupCat, backupLog,
                 usageAtStart, processed, result, adapterVars, orderVars, budgetVars,
                 normVars, clientVars, scoreVars, loaderVars>>

NextBudget ==
  \/ \E c \in Callers : CallStart(c) \/ CallSettle(c)
  \/ IsAvailable
  \/ GetRemaining
  \/ NextDay

SpecBudget == InitBudget /\ [][NextBudget]_vars

(***************************************************************************)
(* Harness for scoreRelevance: two articles with the same text and source  *)
(* and any two publication dates are scored.                               *)
(***************************************************************************)
ScoreTerms == {{}, {"san francisco"}, {"mission", "bart"}}

ScoreSources == {"Test", "sfgate"}

\* hours between publication and the clock: negative for a future date
ScoreAges == {-50, -1, 0, 1, 5, 6, 23, 24, 50, 71, 72, 100}

InitScore ==
  /\ MainIdle
  /\ NormIdle
  /\ ClientIdle
  /\ LoaderIdle
  /\ apiKey = FALSE /\ dailyUsage = 0 /\ usageResetDate = today
  /\ usageAtStart = 0
  /\ sscores = << >>
  /\ \E terms \in ScoreTerms, source \in ScoreSources,
        pub1, pub2 \in {NaD} \cup {now - h : h \in ScoreAges} :
       sarts = <<Art(1, Url("x.com", "/a"), terms, pub1, source),
                 Art(2, Url("x.com", "/b"), terms, pub2, source)>>

\* scoreRelevance(article) on both articles
ApplyScore ==
  /\ sarts # << >>
  /\ sscores = << >>
  /\ sscores' = [i \in DOMAIN sarts |-> scoreRelevance(sarts[i], now)]
  /\ UNCHANGED <<sarts, mainVars, normVars, clientVars, loaderVars>>

NextScore == ApplyScore

SpecScore == InitScore /\ [][NextScore]_vars

(***************************************************************************)
(* lib/content-loader.ts: the browser loaders of the two pre-generated     *)
(* caches.  cache.news is newsCache, cache.activities is activitiesCache,  *)
(* and likewise for the two stored promises.  The data a request returns   *)
(* is tagged with the number of the request, so that the value a caller    *)
(* receives names the load that produced it.                               *)
(***************************************************************************)
\* what a request to the cache endpoint can come to: response.ok with
\* result.success and result.data, response.ok without them, !response.ok,
\* or fetch / response.json() throwing
LoadOutcomes == {"data", "no_data", "http_error", "throw"}

\* if (response.ok) { ... if (result.success && result.data) { newsCache = result.data
storesData(outcome) == outcome = "data"

mustFetch_IgnoresInFlight(cached, inflight) == cached = << >>

\* if (newsCache) return newsCache; if (newsCachePromise) return newsCachePromise;
\* otherwise the request is issued
mustFetch(cached, inflight) == cached = << >> /\ ~inflight

\* loadNewsCache() / loadActivitiesCache() called by c, up to its first await
LoadCall(c, k) ==
  /\ loader[c].st # "waiting"
  /\ IF mustFetch(cache[k], cachePromise[k])
       THEN /\ requests[k] < MaxRequests
            /\ requests' = [requests EXCEPT ![k] = @ + 1]
            /\ cachePromise' = [cachePromise EXCEPT ![k] = TRUE]
            /\ loader' = [loader EXCEPT ![c] = [st |-> "waiting", kind |-> k, got |-> << >>]]
       ELSE IF cache[k] # << >>
         THEN /\ loader' = [loader EXCEPT ![c] = [st |-> "done", kind |-> k, got |-> cache[k]]]
              /\ UNCHANGED <<requests, cachePromise>>
         ELSE /\ loader' = [loader EXCEPT ![c] = [st |-> "waiting", kind |-> k, got |-> << >>]]
              /\ UNCHANGED <<requests, cachePromise>>
  /\ UNCHANGED <<cache, mainVars, normVars, clientVars, scoreVars>>

\* the request of the stored promise comes back: the body of the async
\* function after the await, its finally block, and the continuation of
\* every caller that holds the promise
LoadSettle(k) ==
  /\ cachePromise[k]
  /\ \E outcome \in LoadOutcomes :
       LET value == IF storesData(outcome) THEN <<requests[k]>> ELSE << >>
       IN /\ cache' = IF storesData(outcome) THEN [cache EXCEPT ![k] = value] ELSE cache
          /\ loader' = [c \in Loaders |->
                          IF loader[c].st = "waiting" /\ loader[c].kind = k
                            THEN [st |-> "done", kind |-> k, got |-> value]
                            ELSE loader[c]]
  /\ cachePromise' = [cachePromise EXCEPT ![k] = FALSE]
  /\ UNCHANGED <<requests, mainVars, normVars, clientVars, scoreVars>>

\* clearCache(): newsCache = null; activitiesCache = null;
ClearCache ==
  /\ cache' = [k \in Kinds |-> << >>]
  /\ UNCHANGED <<cachePromise, requests, loader, mainVars, normVars, clientVars, scoreVars>>

InitLoader ==
  /\ MainIdle
  /\ NormIdle
  /\ ClientIdle
  /\ ScoreIdle
  /\ LoaderIdle
  /\ apiKey = FALSE /\ dailyUsage = 0 /\ usageResetDate = today
  /\ usageAtStart = 0

NextLoader ==
  \/ \E c \in Loaders, k \in Kinds : LoadCall(c, k)
  \/ \E k \in Kinds : LoadSettle(k)
  \/ ClearCache

SpecLoader == InitLoader /\ [][NextLoader]_vars

(***************************************************************************)
(* Claims about the aggregation run (specification Spec)                   *)
(***************************************************************************)
KeyOf(a) == normalizeUrl(a.url)

KeysOf(list) == {KeyOf(list[i]) : i \in DOMAIN list}

\* the places <<category, index>> of the articles of a category map
Places(res) == UNION {{<<c, i>> : i \in DOMAIN res[c]} : c \in Categories}

PlacesOfKey(res, k) == {p \in Places(res) : KeyOf(res[p[1]][p[2]]) = k}

\* C1: in every result of fetchAllCategories no two articles of the four
\* lists together have the same normalized-URL key.
C1_GloballyUnique ==
  (pc = "done" /\ opts.op = "all")
    => \A p, q \in Places(result) :
         p # q => KeyOf(result[p[1]][p[2]]) # KeyOf(result[q[1]][q[2]])

\* a run ended in which two categories had ranked an article with the same key
C1_Witness ==
  /\ pc = "done" /\ opts.op = "all"
  /\ \E p, q \in Places(processed) :
       /\ p[1] # q[1]
       /\ KeyOf(processed[p[1]][p[2]]) = KeyOf(processed[q[1]][q[2]])
  /\ Places(result) # {}

\* the fixed priority order the claim states, most local first
PriorityRank(c) ==
  CASE c = "sf-local" -> 1 [] c = "politics" -> 2 [] c = "economy" -> 3 [] OTHER -> 4

\* C3: a normalized URL that is in the candidate lists (the ranked lists the
\* cross-category pass receives) of two or more categories is, in the
\* result, in exactly one list: the one of the highest-priority category
\* among them, in the order sf-local > politics > economy > tech.
C3_CrossCategoryPriority ==
  (pc = "done" /\ opts.op = "all")
    => \A k \in UNION {KeysOf(processed[c]) : c \in Categories} :
         LET holders == {c \in Categories : k \in KeysOf(processed[c])}
             top == CHOOSE c \in holders :
                      \A d \in holders : PriorityRank(c) <= PriorityRank(d)
         IN  Cardinality(holders) >= 2
               => /\ Cardinality(PlacesOfKey(result, k)) = 1
                  /\ \A p \in PlacesOfKey(result, k) : p[1] = top

\* the key of https://x.com/a was ranked in sf-local and in tech, and the
\* result has it in sf-local only
C3_Witness ==
  /\ pc = "done" /\ opts.op = "all"
  /\ LET k == normalizeUrl(Url("x.com", "/a"))
     IN  /\ k \in KeysOf(processed["sf-local"])
         /\ k \in KeysOf(processed["tech"])
         /\ k \in KeysOf(result["sf-local"])
         /\ k \notin KeysOf(result["tech"])

\* every source of the run failed or returned nothing
AllSourcesEmpty ==
  /\ rssAll = NoArticles
  /\ redditAll = NoArticles
  /\ hnArticles = << >>
  /\ \A i \in DOMAIN backupLog : backupLog[i].returned = << >>

\* C7: no adapter failure (transport error, non-2xx, malformed payload)
\* escapes as an exception from fetchFromAllSources or fetchAllCategories:
\* the operation completes with a result, and with every source failing
\* every list is empty.
C7_NoExceptionEscapes ==
  /\ pc # "threw"
  /\ (pc = "done" /\ AllSourcesEmpty) => result = NoArticles

\* C8: when one feed fails on the first attempt and on the retry while
\* another feed succeeds, fetchRSSArticles still returns every article
\* parsed from the successful feed.
C8_PartialDegradation ==
  rssSt = "done"
    => \A i \in Feeds :
         feed[i].ok
           => /\ feed[i].out # << >>
              /\ \A k \in DOMAIN feed[i].out :
                   \E c \in Categories :
                     Cardinality({j \in DOMAIN rssAll[c] :
                                    rssAll[c][j] = feed[i].out[k].a}) = 1

\* SF Standard failed twice, Mission Local answered, and the result holds
\* Mission Local's three articles
C8_Witness ==
  /\ rssSt = "done"
  /\ feed[1].st = "done" /\ ~feed[1].ok
  /\ feed[2].ok
  /\ Len(rssAll["tech"]) + Len(rssAll["economy"]) = 3

\* number of fetchTheNewsAPIArticles calls made for a category
Invocations(cat) ==
  Cardinality({i \in DOMAIN backupLog : backupLog[i].cat = cat})
  + (IF backupCat = cat THEN 1 ELSE 0)

\* what the backup calls for a category returned
RECURSIVE ReturnedFor(_, _)
ReturnedFor(cat, i) ==
  IF i > Len(backupLog) THEN << >>
  ELSE (IF backupLog[i].cat = cat THEN backupLog[i].returned ELSE << >>)
       \o ReturnedFor(cat, i + 1)

\* C9: in fetchAllCategories with skipBackup = false the backup adapter is
\* invoked exactly once for each category with fewer than 3 primary-source
\* articles and never for a category with 3 or more, and what a backup call
\* returns is added to the category it was invoked for only.
C9_BackupThreshold ==
  (opts.op = "all" /\ ~opts.skipBackup /\ pc \in {"backup", "done", "threw"})
    => \A cat \in Categories :
         /\ Invocations(cat) <= 1
         /\ Len(primary[cat]) >= 3 => Invocations(cat) = 0
         /\ (needsBackup = << >> /\ backupCat = "none" /\ Len(primary[cat]) < 3)
              => Invocations(cat) = 1
         /\ combined[cat] = primary[cat] \o ReturnedFor(cat, 1)

\* a run ended in which a category with exactly 2 primary articles got its
\* backup articles and a category with 3 or more got no backup call
C9_Witness ==
  /\ pc = "done" /\ opts.op = "all" /\ ~opts.skipBackup
  /\ \E cat, other \in Categories :
       /\ Len(primary[cat]) = 2
       /\ \E i \in DOMAIN backupLog :
            /\ backupLog[i].cat = cat
            /\ backupLog[i].requested
            /\ backupLog[i].returned # << >>
       /\ Len(combined[cat]) > 2
       /\ Len(primary[other]) >= 3
       /\ Invocations(other) = 0

\* C10: with skipBackup = true neither operation ever invokes the backup
\* adapter, whatever the article counts, and the run leaves the usage
\* counter of the DailyBudget as it was.
C10_SkipBackup ==
  (pc # "idle" /\ opts.skipBackup)
    => /\ backupLog = << >>
       /\ backupCat = "none"
       /\ dailyUsage = usageAtStart

\* a run with skipBackup ended although a category had fewer than 3 primary
\* articles, the API key is set and the budget is not used up
C10_Witness ==
  /\ pc = "done" /\ opts.op = "all" /\ opts.skipBackup
  /\ apiKey /\ dailyUsage < SafetyLimit
  /\ \E cat \in Categories : Len(primary[cat]) < 3

Elems(list) == {list[i] : i \in DOMAIN list}

\* the categories of the backup calls that have returned, in call order
LoggedCats == [i \in DOMAIN backupLog |-> backupLog[i].cat]

OfCategory(parsed, cat) ==
  LET kept == SelectSeq(parsed, LAMBDA e : inferCategoryRSS(e.tags, e.a.terms) = cat)
  IN  [i \in DOMAIN kept |-> kept[i].a]

\* the feed articles of a category, in the order of the feed list
FeedListOrder(cat) == OfCategory(feed[1].out, cat) \o OfCategory(feed[2].out, cat)

\* the raw candidates of a category in the adapter order Feed, Discussion
\* Listing, Link Aggregator (tech only), Backup
AdapterListOrder(cat) ==
  FeedListOrder(cat) \o redditAll[cat]
    \o (IF cat = "tech" THEN hnArticles ELSE << >>) \o ReturnedFor(cat, 1)

\* C21: fetchRSSArticles combines the feed results in the order of the feed
\* list and fetchAllCategories combines the raw candidates of each category
\* in the order Feed, Discussion Listing, Link Aggregator (tech only),
\* Backup, whatever the order in which the concurrent calls settled; the
\* lists returned are a function of the provider responses, the options and
\* the clock alone.
C21_FixedCombinationOrder ==
  /\ rssSt = "done" => \A cat \in Categories : rssAll[cat] = FeedListOrder(cat)
  /\ (opts.op = "all" /\ pc \in {"backup", "done", "threw"})
       => \A cat \in Categories : combined[cat] = AdapterListOrder(cat)
  /\ (opts.op = "all" /\ pc = "done")
       => result = crossCategoryDedup(
                     [cat \in Categories |->
                        processCategory(AdapterListOrder(cat), opts.fromDate,
                                        opts.limit, now)], 1, {})

\* the adapters settled in the order Hacker News, Reddit, RSS and the second
\* feed before the first, all with articles for tech, and tech was combined
C21_Witness ==
  /\ opts.op = "all" /\ pc = "backup"
  /\ settled = <<"hn", "reddit", "rss">>
  /\ feedOrder = <<2, 1>>
  /\ rssAll["tech"] # << >> /\ redditAll["tech"] # << >> /\ hnArticles # << >>
  /\ OfCategory(feed[1].out, "tech") # << >>
  /\ OfCategory(feed[2].out, "tech") # << >>
  /\ Len(combined["tech"]) = Len(rssAll["tech"]) + Len(redditAll["tech"]) + Len(hnArticles)

\* C24: a feed gets at most two fetch attempts in a run: the first when the
\* run starts, the second only after the first threw or was not 2xx and the
\* wait that follows it is over; a first attempt that is answered 2xx is not
\* retried; after the second attempt the feed is done, whatever its
\* outcome, and a feed whose second attempt failed contributes no article.
C24_FeedRetry ==
  [][\A i \in Feeds :
       /\ (feed'[i].st = "try1" /\ feed[i].st # "try1") => pc = "idle"
       /\ (feed[i].st = "try1" /\ feed'[i].st # "try1")
            => \/ feed'[i].st = "done" /\ feed'[i].ok
               \/ feed'[i].st = "wait"
       /\ (feed'[i].st = "wait" /\ feed[i].st # "wait") => feed[i].st = "try1"
       /\ (feed[i].st = "wait" /\ feed'[i].st # "wait") => feed'[i].st = "try2"
       /\ (feed'[i].st = "try2" /\ feed[i].st # "try2") => feed[i].st = "wait"
       /\ (feed[i].st = "try2" /\ feed'[i].st # "try2")
            => /\ feed'[i].st = "done"
               /\ ~feed'[i].ok => feed'[i].out = << >>
       /\ feed[i].st = "done" => feed'[i].st \in {"done", "try1"}
       /\ (rssSt' = "done" /\ ~feed'[i].ok)
            => \A cat \in Categories :
                 \A a \in Elems(rssAll'[cat]) : a.source # RSS_FEEDS[i].name]_vars

\* Mission Local failed on both attempts and SF Standard answered: the feed
\* result holds SF Standard's articles only
C24_Witness ==
  /\ rssSt = "done"
  /\ feed[2].st = "done" /\ ~feed[2].ok /\ feed[2].out = << >>
  /\ feed[1].ok
  /\ rssAll["economy"] = << >>
  /\ rssAll["sf-local"] # << >>

\* the articles a category map holds from one subreddit
FromSubreddit(res, i) ==
  UNION {{a \in Elems(res[cat]) : a.source = "Reddit r/" \o SUBREDDITS[i].name} :
           cat \in Categories}

\* C25: fetchRedditArticles asks for its subreddits one at a time in list
\* order: the first request goes out when the adapter is called, the request
\* for the next subreddit only when the response of the one before has been
\* processed and the delay after it is over, and the adapter is done only
\* after the delay that follows the last subreddit, so a subreddit that
\* fails does not stop the ones after it.
C25_SequentialSubreddits ==
  [][/\ (redditSt' = "fetch" /\ (redditSt # "fetch" \/ redditIdx' # redditIdx))
          => \/ redditSt \in {"idle", "done"} /\ redditIdx' = 1
             \/ redditSt = "delay" /\ redditIdx' = redditIdx + 1
     /\ (redditSt = "fetch" /\ <<redditSt, redditIdx, redditAll>>' # <<redditSt, redditIdx, redditAll>>)
          => /\ redditSt' = "delay"
             /\ redditIdx' = redditIdx
             /\ \A j \in DOMAIN SUBREDDITS :
                  j # redditIdx
                    => FromSubreddit(redditAll', j) = FromSubreddit(redditAll, j)
     /\ (redditSt = "delay" /\ redditSt' # "delay")
          => /\ redditAll' = redditAll
             /\ IF redditIdx < Len(SUBREDDITS)
                THEN redditSt' = "fetch" /\ redditIdx' = redditIdx + 1
                ELSE redditSt' = "done"
     /\ (redditSt' = "done" /\ redditSt # "done")
          => redditSt = "delay" /\ redditIdx = Len(SUBREDDITS)]_vars

\* r/sanfrancisco failed, r/bayarea was asked all the same and answered: the
\* adapter's result holds articles of r/bayarea only
C25_Witness ==
  /\ redditSt = "done"
  /\ redditIdx = Len(SUBREDDITS)
  /\ FromSubreddit(redditAll, 1) = {}
  /\ FromSubreddit(redditAll, 2) # {}

\* C26: fetchFromAllSources applies no article-count threshold; the options
\* have no field that asks for the backup adapter (skipBackup only opts out
\* of it), so a single-category run never invokes the backup adapter on
\* account of the number of articles its primary sources returned.
C26_NoThresholdInOne ==
  (opts.op = "one" /\ pc \in {"backup", "done", "threw"})
    => Invocations(opts.category) = 0

MinTitleLength == 10     \* the minimum title length of the quality filter

\* the post of the listings an article was made of, with its subreddit
PostOf(a) ==
  CHOOSE e \in UNION {{[p |-> Listings[i][k], sub |-> SUBREDDITS[i]] :
                         k \in DOMAIN Listings[i]} : i \in DOMAIN Listings} :
    e.p.id = a.id

\* the quality filter as stated
StatedQuality(post, minScore) ==
  /\ post.score >= minScore
  /\ post.len >= MinTitleLength
  /\ "rule" \notin post.title
  /\ ~("weekly" \in post.title /\ "thread" \in post.title)
  /\ "where" \notin post.title

\* C27: a post of a subreddit listing becomes an article only if its score
\* is at least the subreddit's minimum, its title has the minimum length,
\* its title has neither "rule" nor both "weekly" and "thread", and it is not
\* phrased as an open question; no other post is in the adapter's result.
C27_QualityFilter ==
  \A cat \in Categories :
    \A a \in Elems(redditAll[cat]) :
      StatedQuality(PostOf(a).p, PostOf(a).sub.minScore)

\* number of raw articles the primary adapters returned for a category
RawCount(cat) ==
  Len(rssAll[cat]) + Len(redditAll[cat])
    + (IF cat = "tech" THEN Len(hnArticles) ELSE 0)

\* C29: in fetchAllCategories the backup adapter is invoked for a category
\* if and only if skipBackup is false and the primary adapters returned
\* fewer than 3 raw articles for it, counted before the date filter, the
\* dedup passes and the truncation; what is left of the category in the
\* result plays no part.
C29_BackupOnRawCount ==
  (opts.op = "all" /\ pc \in {"backup", "done", "threw"})
    => \A cat \in Categories :
         /\ Invocations(cat) > 0 => ~opts.skipBackup /\ RawCount(cat) < MinArticles
         /\ (pc \in {"done", "threw"} /\ ~opts.skipBackup /\ RawCount(cat) < MinArticles)
              => Invocations(cat) = 1

\* a run without skipBackup ended with an empty tech list although the
\* backup adapter was never invoked for tech: its 3 or more raw articles
\* were all older than fromDate
C29_Witness ==
  /\ pc = "done" /\ opts.op = "all" /\ ~opts.skipBackup
  /\ apiKey /\ dailyUsage < SafetyLimit
  /\ RawCount("tech") >= MinArticles
  /\ Invocations("tech") = 0
  /\ result["tech"] = << >>
  /\ \E cat \in Categories : Invocations(cat) = 1

\* C14: when a fromDate is given, an article whose publishedDate cannot be
\* parsed passes the date filter of its category; only parseable dates
\* earlier than fromDate are dropped.
C14_UnparseableRetained ==
  (pc \in {"backup", "done", "threw"} /\ opts.fromDate # NaD)
    => \A cat \in Categories :
         \A a \in Elems(combined[cat]) :
           (a.pub = NaD \/ a.pub >= opts.fromDate)
             => a \in Elems(filterByDate(combined[cat], opts.fromDate))

\* C15: when a fromDate is given, no article whose publishedDate parses to
\* an instant before fromDate is in a list either operation returns; with
\* skipBackup and a fromDate after the date of every fetched article, every
\* returned list is empty.
C15_FromDateLowerBound ==
  (pc = "done" /\ opts.fromDate # NaD)
    => /\ \A cat \in Categories :
            \A a \in Elems(result[cat]) : ~(a.pub # NaD /\ a.pub < opts.fromDate)
       /\ (opts.skipBackup
             /\ \A cat \in Categories :
                  \A a \in Elems(combined[cat]) : a.pub # NaD /\ a.pub < opts.fromDate)
            => result = NoArticles

\* a run with fromDate ended whose politics candidates held an older
\* article, and the politics list returned is not empty
C15_Witness ==
  /\ pc = "done" /\ opts.op = "all" /\ opts.fromDate = 60
  /\ \E a \in Elems(combined["politics"]) : a.pub # NaD /\ a.pub < 60
  /\ result["politics"] # << >>

\* the date-filtered, deduplicated candidates of a category
Candidates(cat) == deduplicateByUrl(filterByDate(combined[cat], opts.fromDate))

PosIn(list, a) == CHOOSE i \in DOMAIN list : list[i] = a

\* a ranks before b: higher score, or the same score and earlier in the input
RanksBefore(cands, a, b) ==
  \/ scoreRelevance(a, now) > scoreRelevance(b, now)
  \/ /\ scoreRelevance(a, now) = scoreRelevance(b, now)
     /\ PosIn(cands, a) < PosIn(cands, b)

C20_EventuallyReturns == (pc # "idle") ~> (pc \in {"done", "threw"})

(***************************************************************************)
(* Claims about the pure URL functions (specification SpecNorm)            *)
(***************************************************************************)

\* C2: two parseable URLs with the same host and path whose non-tracking
\* query parameters differ in name or value get different normalized keys,
\* and deduplicateByUrl retains both articles.
C2_NonTrackingDistinct ==
  (nphase = "nontracking-applied" /\ urlParses(nurls[1]))
    => /\ nkeys[1] # nkeys[2]
       /\ ndedup = <<TestArticle(1, nurls[1]), TestArticle(2, nurls[2])>>

\* page=1 against page=2 on a parseable URL has been normalised
C2_Witness ==
  /\ nphase = "nontracking-applied"
  /\ urlParses(nurls[1])
  /\ nurls[1].query = <<Param("page", "1")>>
  /\ nurls[2].query = <<Param("page", "2")>>
  /\ nkeys[1].query = <<Param("page", "1")>>

\* C4: for a parseable URL, adding or removing parameters of the tracking
\* denylist yields the same normalized key, and two articles whose URLs
\* differ only by such parameters collapse into one retained article (the
\* first).
C4_TrackingInvariant ==
  (nphase = "tracking-applied" /\ urlParses(nurls[1]))
    => /\ nkeys[1] = nkeys[2]
       /\ ndedup = <<TestArticle(1, nurls[1])>>

\* a URL and its copy with ?ref=t have been deduplicated to one article
C4_Witness ==
  /\ nphase = "tracking-applied"
  /\ urlParses(nurls[1])
  /\ nurls[1].query = << >>
  /\ nurls[2].query = <<Param("ref", "t")>>
  /\ Len(ndedup) = 1

C6_Idempotent ==
  nphase = "input-applied" => nkeys2[1] = nkeys[1]

(***************************************************************************)
(* Claims about deduplicateByUrl (specification SpecDedup)                 *)
(***************************************************************************)

\* the positions of a list that carry their key for the first time
FirstIdx(list) ==
  {i \in DOMAIN list : \A j \in 1 .. (i - 1) : KeyOf(list[j]) # KeyOf(list[i])}

\* the text of a URL string in lower case
LowerText(u) == [normalizeFallback(u) EXCEPT !.frag = u.frag]

\* the lower-cased text of a URL string up to its '#'
LowerTextNoFragment(u) == [LowerText(u) EXCEPT !.frag = FALSE]

\* the output is the input's first occurrence of each key, in input order
FirstOccurrences(inp, out) ==
  /\ Elems(out) = {inp[i] : i \in FirstIdx(inp)}
  /\ Len(out) = Cardinality({KeyOf(inp[i]) : i \in DOMAIN inp})
  /\ \A k, l \in DOMAIN out : k < l => PosIn(inp, out[k]) < PosIn(inp, out[l])
  /\ inp = << >> => out = << >>

\* C22 as stated: deduplicateByUrl returns exactly the first occurrence of
\* each normalized-URL key in input order (a subsequence of the input, one
\* article per key, [] for []), and unparseable URLs whose lower-cased text
\* differs are all retained.
C22_DistinctLowerText ==
  dphase = "applied"
    => /\ FirstOccurrences(dlist, dout)
       /\ (\A i, j \in DOMAIN dlist :
              /\ ~urlParses(dlist[i].url)
              /\ i # j => LowerText(dlist[i].url) # LowerText(dlist[j].url))
            => dout = dlist

\* C22 amended: as stated, with the unparseable URLs that are all retained
\* being those whose lower-cased text differs before any '#fragment'.
C22_FirstOccurrence ==
  dphase = "applied"
    => /\ FirstOccurrences(dlist, dout)
       /\ (\A i, j \in DOMAIN dlist :
              /\ ~urlParses(dlist[i].url)
              /\ i # j => LowerTextNoFragment(dlist[i].url)
                             # LowerTextNoFragment(dlist[j].url))
            => dout = dlist

\* of https://x.com/a, not-a-valid-url and https://www.x.com/a/ the first
\* two were returned, in that order
C22_Witness ==
  /\ dphase = "applied"
  /\ Len(dlist) = 3
  /\ dlist[1].url = Url("x.com", "/a")
  /\ dlist[2].url = Unparseable("not-a-valid-url")
  /\ dlist[3].url = [Url("x.com", "/a") EXCEPT !.www = TRUE, !.slashes = 1]
  /\ dout = <<dlist[1], dlist[2]>>

(***************************************************************************)
(* Claims about the backup client (specification SpecBudget)               *)
(***************************************************************************)

\* C11: every provider call the backup client attempts raises the usage
\* counter by exactly 1 when it settles, whether it succeeds, gets a non-2xx
\* response or throws.
C11_EveryAttemptCounted ==
  [][\A c \in Callers :
       (call[c].st = "inflight" /\ call'[c].st = "done")
         => dailyUsage' = dailyUsage + 1]_vars

\* C12: a call made when today's usage counter has reached the safety limit
\* returns [] at once, issues no request and leaves the counter alone; a
\* request is issued only with the counter below the limit.
C12_BudgetRefusal ==
  [][\A c \in Callers :
       /\ (apiKey /\ call[c].st = "idle" /\ call'[c].st # "idle"
              /\ usageResetDate = today /\ dailyUsage >= SafetyLimit)
            => /\ call'[c].st = "done"
               /\ call'[c].out = << >>
               /\ dailyUsage' = dailyUsage
       /\ (call[c].st = "idle" /\ call'[c].st = "inflight")
            => dailyUsage' < SafetyLimit]_vars

\* the day's counter stood at the limit and every caller was sent away
C12_Witness ==
  /\ apiKey
  /\ usageAtStart = SafetyLimit /\ dailyUsage = SafetyLimit
  /\ usageResetDate = today
  /\ \A c \in Callers : call[c].st = "done" /\ call[c].out = << >>

\* C13: without the API credential a call of fetchTheNewsAPIArticles returns
\* [] without a request, the usage counter and the reset date stay as they
\* are, and isTheNewsAPIAvailable reports false.
C13_CredentialGate ==
  [][~apiKey =>
       /\ \A c \in Callers :
            (call[c].st = "idle" /\ call'[c].st # "idle")
              => /\ call'[c].st = "done" /\ call'[c].out = << >>
                 /\ dailyUsage' = dailyUsage
                 /\ usageResetDate' = usageResetDate
       /\ IsAvailable
            => /\ dailyUsage' = dailyUsage
               /\ usageResetDate' = usageResetDate
       /\ available' \in {available, "false"}]_vars

\* no credential: every caller got [], the availability check said false and
\* the reset date is still the stale one
C13_Witness ==
  /\ ~apiKey
  /\ \A c \in Callers : call[c].st = "done" /\ call[c].out = << >>
  /\ available = "false"
  /\ usageResetDate # today
  /\ dailyUsage = usageAtStart

\* C28: whatever the interleaving of the fetchTheNewsAPIArticles calls of one
\* process, the usage counter never exceeds the safety limit of 95, so no
\* request goes out once 95 requests have been issued that day.
C28_NeverAboveLimit == dailyUsage <= SafetyLimit

\* C23: a budget check (fetchTheNewsAPIArticles, isTheNewsAPIAvailable,
\* getRemainingRequests) that runs on a date other than the stored reset
\* date sets the counter to 0 and the reset date to the current date and is
\* evaluated on the counter 0; the counter decreases through such a reset
\* only; getRemainingRequests returns a value from 0 to 100.
C23_DailyReset ==
  [][/\ \A c \in Callers :
          (apiKey /\ usageResetDate # today
             /\ call[c].st = "idle" /\ call'[c].st # "idle")
            => /\ dailyUsage' = 0
               /\ usageResetDate' = today
               /\ call'[c].st = "inflight"
     /\ (apiKey /\ usageResetDate # today /\ IsAvailable)
          => /\ dailyUsage' = 0
             /\ usageResetDate' = today
             /\ available' = "true"
     /\ (usageResetDate # today /\ GetRemaining)
          => /\ dailyUsage' = 0
             /\ usageResetDate' = today
             /\ remaining' = <<100>>
     /\ dailyUsage' < dailyUsage
          => usageResetDate # today /\ dailyUsage' = 0 /\ usageResetDate' = today
     /\ remaining' # << >> => remaining'[1] \in 0 .. 100]_vars

\* the counter stood at the limit, midnight passed, and getRemainingRequests
\* returned 100 after resetting it
C23_Witness ==
  /\ apiKey
  /\ usageAtStart = SafetyLimit
  /\ now > 100
  /\ usageResetDate = today
  /\ dailyUsage = 0
  /\ remaining = <<100>>

(***************************************************************************)
(* Claims about scoreRelevance (specification SpecScore)                   *)
(***************************************************************************)

\* what the keyword, neighborhood and source rules give the harness articles:
\* "san francisco" 10, "mission" 3 + "bart" 5, source sfgate 5
ExpectedBase(a) ==
  (IF a.terms = {"san francisco"} THEN 10 ELSE IF a.terms = {} THEN 0 ELSE 8)
  + (IF a.source = "sfgate" THEN 5 ELSE 0)

\* C17: an article dated after the current time (elapsed hours <= 0) gets
\* no recency contribution, so its score is not above the score of the same
\* article published at or before the current time.
C17_FutureNoBonus ==
  (sscores # << >> /\ sarts[1].pub # NaD /\ sarts[1].pub >= now)
    => /\ sscores[1] = ExpectedBase(sarts[1])
       /\ (sarts[2].pub # NaD /\ sarts[2].pub <= now) => sscores[1] <= sscores[2]

\* an article dated 50 hours ahead was scored below its copy of an hour ago
C17_Witness ==
  /\ sscores # << >>
  /\ sarts[1].pub = now + 50
  /\ sarts[2].pub = now - 1
  /\ sscores[1] < sscores[2]

\* the recency term the claim states, by elapsed hours
StatedRecency(pub) ==
  IF pub = NaD THEN 0
  ELSE IF now - pub <= 0 THEN 0
  ELSE IF now - pub < 6 THEN 10
  ELSE IF now - pub < 24 THEN 5
  ELSE IF now - pub < 72 THEN 2
  ELSE 0

\* C18: of two articles that differ only in publishedDate, both parseable
\* and strictly in the past, the more recent one does not score lower; the
\* recency term is 10 below 6 h, 5 below 24 h, 2 below 72 h, else 0, and 0
\* for an unparseable date.
C18_RecencyMonotone ==
  sscores # << >>
    => /\ \A i \in DOMAIN sarts :
            sscores[i] = ExpectedBase(sarts[i]) + StatedRecency(sarts[i].pub)
       /\ (sarts[1].pub # NaD /\ sarts[2].pub # NaD
             /\ sarts[2].pub <= sarts[1].pub /\ sarts[1].pub < now)
            => sscores[1] >= sscores[2]

\* an article of 1 hour ago scored 8 above its copy of 50 hours ago
C18_Witness ==
  /\ sscores # << >>
  /\ sarts[1].pub = now - 1
  /\ sarts[2].pub = now - 50
  /\ sscores[1] = sscores[2] + 8

(***************************************************************************)
(* Claims about the browser cache loaders (specification SpecLoader)       *)
(***************************************************************************)
\* caller c enters a wait for the cache of kind k in this step
Arrives(c, k) ==
  /\ loader[c].st # "waiting"
  /\ loader'[c].st = "waiting"
  /\ loader'[c].kind = k

\* C30: a request to a cache endpoint is issued only when no value is stored
\* and no load is in flight; a caller arriving during a load issues none and
\* receives, with every other waiting caller, that load's result; a failed
\* load stores nothing and clears the stored promise, so that the next call
\* issues a request; once a value is stored no request is issued until
\* clearCache() empties the cache.  The same holds for both loaders.
C30_SingleFlight ==
  [][\A k \in Kinds :
       /\ requests'[k] # requests[k]
            => /\ requests'[k] = requests[k] + 1
               /\ cache[k] = << >>
               /\ ~cachePromise[k]
               /\ cachePromise'[k]
       /\ \A c \in Loaders :
            Arrives(c, k)
              => requests'[k] = (IF cachePromise[k] THEN requests[k] ELSE requests[k] + 1)
       /\ (cachePromise[k] /\ ~cachePromise'[k])
            => \E v \in {<< >>, <<requests[k]>>} :
                 /\ \A c \in Loaders :
                      (loader[c].st = "waiting" /\ loader[c].kind = k)
                        => loader'[c].st = "done" /\ loader'[c].got = v
                 /\ cache'[k] = (IF v = << >> THEN cache[k] ELSE v)
       /\ (\E c \in Loaders : loader[c].st = "waiting" /\ loader[c].kind = k)
            => cachePromise[k]
       /\ (cache[k] # << >> /\ cache'[k] = << >>)
            => /\ loader' = loader
               /\ requests' = requests
       /\ \A c \in Loaders :
            (cache[k] # << >> /\ loader[c] # loader'[c] /\ loader'[c].kind = k)
              => loader'[c].st = "done" /\ loader'[c].got = cache[k]]_vars

\* one caller has seen the first news load fail, and the second request is
\* in flight with every other caller waiting on it
C30_Witness ==
  /\ requests["news"] = 2
  /\ cachePromise["news"]
  /\ loader[1] = [st |-> "done", kind |-> "news", got |-> << >>]
  /\ loader[2].st = "waiting" /\ loader[2].kind = "news"
  /\ loader[3].st = "waiting" /\ loader[3].kind = "news"

====
